---- MODULE Spec2Model ----
(***************************************************************************)
(* A model of task2.py: a build script that clones a Git repository into   *)
(* temp_repo, prunes the clone down to one subdirectory, writes a          *)
(* version.json manifest into it, zips it and moves the zip to the         *)
(* invocation directory.                                                   *)
(*                                                                         *)
(* Strings are sequences of one-character strings, so that os.path's       *)
(* functions, str.endswith and strftime are computed character by          *)
(* character.  A file system is a function from paths (sequences of entry  *)
(* names, relative to the invocation directory) to nodes.                  *)
(***************************************************************************)
EXTENDS Integers, Sequences, FiniteSets, TLC

VARIABLES
    fs,          \* the file system below the invocation directory
    pc,          \* main's position
    args,        \* argparse's result: repository_url, source_path, version
    remote,      \* what the repository URL serves: a tree, or nothing
    today,       \* the local date datetime.now() returns
    order,       \* the order os.listdir yields entries in
    log,         \* the stages entered so far, with each one's outcome
    archive_path,\* create_archive's return value
    cloned,      \* the tree as the clone left it (for the claims)
    faulted,     \* whether the environment made a file operation fail
    denied,      \* directories shutil.rmtree cannot remove
    calls,       \* clean_directory calls made (specification SpecPrune)
    rets,        \* their return values
    snaps        \* the file system before the first call and after each

vars == <<fs, pc, args, remote, today, order, log, archive_path, cloned,
          faulted, denied, calls, rets, snaps>>

-----------------------------------------------------------------------------
(* Strings                                                                 *)

SEP == "/"

S_temp_repo == <<"t","e","m","p","_","r","e","p","o">>
S_git == <<".","g","i","t">>
S_version_json == <<"v","e","r","s","i","o","n",".","j","s","o","n">>
S_zip == <<".","z","i","p">>
S_dot == <<".">>
S_dotdot == <<".",".">>

\* str.endswith(suffix)
EndsWith(s, suffix) ==
    /\ Len(suffix) <= Len(s)
    /\ SubSeq(s, Len(s) - Len(suffix) + 1, Len(s)) = suffix

\* str.endswith(tuple_of_suffixes)
EndsWithAny(s, suffixes) == \E x \in suffixes : EndsWith(s, x)

\* s.split('/')
RECURSIVE Split(_)
Split(s) ==
    IF \A i \in 1..Len(s) : s[i] # SEP THEN <<s>>
    ELSE LET i == CHOOSE k \in 1..Len(s) :
                      s[k] = SEP /\ \A j \in 1..(k - 1) : s[j] # SEP
         IN <<SubSeq(s, 1, i - 1)>> \o Split(SubSeq(s, i + 1, Len(s)))

\* '/'.join(comps)
RECURSIVE JoinSep(_)
JoinSep(comps) ==
    IF comps = <<>> THEN <<>>
    ELSE IF Len(comps) = 1 THEN comps[1]
    ELSE comps[1] \o <<SEP>> \o JoinSep(Tail(comps))

\* s.rfind('/') + 1
RFindSep(s) ==
    IF \A i \in 1..Len(s) : s[i] # SEP THEN 0
    ELSE CHOOSE k \in 1..Len(s) :
             s[k] = SEP /\ \A j \in (k + 1)..Len(s) : s[j] # SEP

\* s.rstrip('/')
RECURSIVE RStripSep(_)
RStripSep(s) ==
    IF s # <<>> /\ s[Len(s)] = SEP THEN RStripSep(SubSeq(s, 1, Len(s) - 1))
    ELSE s

-----------------------------------------------------------------------------
(* posixpath                                                               *)

\* os.path.join(a, b)
Join(a, b) ==
    IF b # <<>> /\ b[1] = SEP THEN b
    ELSE IF a = <<>> \/ a[Len(a)] = SEP THEN a \o b
    ELSE a \o <<SEP>> \o b

\* the loop of os.path.normpath over the components
RECURSIVE NormComps(_, _, _)
NormComps(comps, acc, rooted) ==
    IF comps = <<>> THEN acc
    ELSE LET c == Head(comps) IN
         IF c = <<>> \/ c = S_dot THEN NormComps(Tail(comps), acc, rooted)
         ELSE IF \/ c # S_dotdot
                 \/ (~rooted /\ acc = <<>>)
                 \/ (acc # <<>> /\ acc[Len(acc)] = S_dotdot)
              THEN NormComps(Tail(comps), Append(acc, c), rooted)
         ELSE IF acc # <<>>
              THEN NormComps(Tail(comps), SubSeq(acc, 1, Len(acc) - 1), rooted)
         ELSE NormComps(Tail(comps), acc, rooted)

\* os.path.normpath(path); every path of the model is relative, so POSIX's
\* rule that exactly two leading slashes are kept is left out
NormPath(path) ==
    IF path = <<>> THEN S_dot
    ELSE LET rooted == path[1] = SEP
             body == JoinSep(NormComps(Split(path), <<>>, rooted))
             out == IF rooted THEN <<SEP>> \o body ELSE body
         IN IF out = <<>> THEN S_dot ELSE out

\* os.path.dirname(p)
DirName(p) ==
    LET i == RFindSep(p)
        head == SubSeq(p, 1, i)
    IN IF head # <<>> /\ \E k \in 1..Len(head) : head[k] # SEP
       THEN RStripSep(head) ELSE head

\* os.path.basename(p)
BaseName(p) == SubSeq(p, RFindSep(p) + 1, Len(p))

-----------------------------------------------------------------------------
(* The file system                                                         *)

Dir == [kind |-> "dir"]
File(d) == [kind |-> "file", data |-> d]
Blob(id) == [tag |-> "blob", id |-> id]

IsPrefix(p, q) == Len(p) <= Len(q) /\ SubSeq(q, 1, Len(p)) = p

\* the entry a path string names: its components without the empty ones and
\* '.', from the invocation directory (the model's paths hold no '..')
Resolve(s) == SelectSeq(Split(s), LAMBDA c : c # <<>> /\ c # S_dot)

TrailingSep(s) == s # <<>> /\ s[Len(s)] = SEP

\* os.path.isdir(path); the invocation directory itself is the key << >>
IsDir(f, s) ==
    LET k == Resolve(s) IN k = <<>> \/ (k \in DOMAIN f /\ f[k].kind = "dir")

\* os.path.isfile(path): a regular file named with a trailing separator is
\* not found (ENOTDIR)
IsFile(f, s) ==
    LET k == Resolve(s)
    IN k \in DOMAIN f /\ f[k].kind = "file" /\ ~TrailingSep(s)

\* os.path.exists(path)
Exists(f, s) == IsDir(f, s) \/ IsFile(f, s)

\* os.listdir(path): the names directly inside the directory, in the order
\* the platform yields them
ListDir(f, s, ord) ==
    LET k == Resolve(s)
    IN SelectSeq(ord, LAMBDA n : Append(k, n) \in DOMAIN f)

\* shutil.rmtree(path): the entry and everything below it
RmTree(f, s) ==
    LET k == Resolve(s)
    IN [q \in {q \in DOMAIN f : ~IsPrefix(k, q)} |-> f[q]]

\* a file created or overwritten at a path
WriteFile(f, s, d) ==
    LET k == Resolve(s)
    IN [q \in DOMAIN f \cup {k} |-> IF q = k THEN File(d) ELSE f[q]]

\* the tree t (keys relative to its root) placed at the path key k
Under(k, t) ==
    [q \in {k} \cup {k \o r : r \in DOMAIN t} |->
        IF q = k THEN Dir ELSE t[SubSeq(q, Len(k) + 1, Len(q))]]

\* the tree below the directory at key k, with keys relative to it
SubTree(f, k) ==
    [r \in {SubSeq(q, Len(k) + 1, Len(q)) :
              q \in {q \in DOMAIN f : IsPrefix(k, q) /\ q # k}} |-> f[k \o r]]

\* two file systems with no path in common, side by side
Both(f, g) == [q \in DOMAIN f \cup DOMAIN g |-> IF q \in DOMAIN f THEN f[q] ELSE g[q]]

EmptyFs == [q \in {} |-> Dir]

-----------------------------------------------------------------------------
(* clean_directory                                                         *)

temp_dir == S_temp_repo

\* line 48: the entries the loop skips
Skipped(item, item_path, full_keep_path) ==
    \/ item = S_git
    \/ item_path = full_keep_path
    \/ item_path = DirName(full_keep_path)

\* a loop that returns after the first directory it removes
RECURSIVE CleanLoop_StopAfterFirst(_, _, _, _, _)
CleanLoop_StopAfterFirst(f, items, root_dir, full_keep_path, den) ==
    IF items = <<>> THEN [fs |-> f, ret |-> TRUE]
    ELSE LET item == Head(items)
             item_path == Join(root_dir, item)
         IN IF Skipped(item, item_path, full_keep_path) \/ ~IsDir(f, item_path)
            THEN CleanLoop_StopAfterFirst(f, Tail(items), root_dir,
                                          full_keep_path, den)
            ELSE IF Resolve(item_path) \in den
            THEN [fs |-> f, ret |-> FALSE]
            ELSE [fs |-> RmTree(f, item_path), ret |-> TRUE]

\* a loop without line 51's isdir test: files are removed too
RECURSIVE CleanLoop_NoIsDir(_, _, _, _, _)
CleanLoop_NoIsDir(f, items, root_dir, full_keep_path, den) ==
    IF items = <<>> THEN [fs |-> f, ret |-> TRUE]
    ELSE LET item == Head(items)
             item_path == Join(root_dir, item)
         IN IF Skipped(item, item_path, full_keep_path)
            THEN CleanLoop_NoIsDir(f, Tail(items), root_dir, full_keep_path, den)
            ELSE IF Resolve(item_path) \in den
            THEN [fs |-> f, ret |-> FALSE]
            ELSE CleanLoop_NoIsDir(RmTree(f, item_path), Tail(items), root_dir,
                                   full_keep_path, den)

\* lines 44-53: the loop over the root's listing; shutil.rmtree raises on a
\* directory it may not remove, which ends the loop with what is deleted so far
RECURSIVE CleanLoop(_, _, _, _, _)
CleanLoop(f, items, root_dir, full_keep_path, den) ==
    IF items = <<>> THEN [fs |-> f, ret |-> TRUE]
    ELSE LET item == Head(items)
             item_path == Join(root_dir, item)
         IN IF Skipped(item, item_path, full_keep_path)
            THEN CleanLoop(f, Tail(items), root_dir, full_keep_path, den)
            ELSE IF IsDir(f, item_path)
            THEN IF Resolve(item_path) \in den
                 THEN [fs |-> f, ret |-> FALSE]
                 ELSE CleanLoop(RmTree(f, item_path), Tail(items), root_dir,
                                full_keep_path, den)
            ELSE CleanLoop(f, Tail(items), root_dir, full_keep_path, den)

\* clean_directory(root_dir, keep_path): the file system it leaves and what
\* it returns
CleanDirectory(f, root_dir, keep_path, ord, den) ==
    LET keep == NormPath(keep_path)
        full_keep_path == Join(root_dir, keep)
    IN IF ~Exists(f, full_keep_path) \/ ~IsDir(f, root_dir)
       THEN [fs |-> f, ret |-> FALSE]
       ELSE CleanLoop(f, ListDir(f, root_dir, ord), root_dir, full_keep_path, den)

-----------------------------------------------------------------------------
(* create_version_file                                                     *)

allowed_extensions == {<<".","p","y">>, <<".","j","s">>, <<".","s","h">>}

\* the listing filtered by ending alone, without os.path.isfile
ManifestFiles_NoIsFile(f, source_dir, ord) ==
    SelectSeq(ListDir(f, source_dir, ord),
              LAMBDA n : EndsWithAny(n, allowed_extensions))

\* lines 68-71: the names the manifest lists
ManifestFiles(f, source_dir, ord) ==
    SelectSeq(ListDir(f, source_dir, ord),
              LAMBDA n : /\ IsFile(f, Join(source_dir, n))
                         /\ EndsWithAny(n, allowed_extensions))

\* lines 73-77
VersionData(version, files) ==
    [tag |-> "manifest", name |-> "hello world", version |-> version,
     files |-> files]

\* create_version_file(source_dir, version); os.listdir raises unless
\* source_dir is a directory, open(.., 'w') raises on a directory or when the
\* environment refuses the write
CreateVersionFile(f, source_dir, version, ord, fault) ==
    LET version_file_path == Join(source_dir, S_version_json)
    IN IF ~IsDir(f, source_dir) \/ IsDir(f, version_file_path) \/ fault
       THEN [fs |-> f, ret |-> FALSE]
       ELSE [fs |-> WriteFile(f, version_file_path,
                              VersionData(version,
                                          ManifestFiles(f, source_dir, ord))),
             ret |-> TRUE]

-----------------------------------------------------------------------------
(* create_archive                                                          *)

DigitChar(d) == <<"0","1","2","3","4","5","6","7","8","9">>[d + 1]

\* an integer printed in at least w digits, zero-padded
RECURSIVE Padded(_, _)
Padded(n, w) ==
    IF n < 10 /\ w <= 1 THEN <<DigitChar(n)>>
    ELSE Append(Padded(n \div 10, w - 1), DigitChar(n % 10))

\* strftime("%Y%m%d")
StrfTime(date) == Padded(date.y, 4) \o Padded(date.m, 2) \o Padded(date.d, 2)

\* the name taken from source_dir as given, without os.path.normpath
ArchiveName_NoNorm(source_dir, date) ==
    BaseName(source_dir) \o StrfTime(date)

\* lines 94-98
ArchiveName(source_dir, date) ==
    BaseName(NormPath(source_dir)) \o StrfTime(date)

\* lines 101-102
ArchivePath(source_dir, date) ==
    Join(DirName(source_dir), ArchiveName(source_dir, date))

\* what the zip file holds: shutil.make_archive opens the zip and then walks
\* root_dir, so a zip that lies inside root_dir holds an entry for itself
ZipMembers(f, zip_path, root_dir) ==
    SubTree(WriteFile(f, zip_path, Blob("zip being written")), Resolve(root_dir))

\* create_archive(source_dir): the file system it leaves and the path it
\* returns, "" on an exception
CreateArchive(f, source_dir, date, fault) ==
    LET zip_path == ArchivePath(source_dir, date) \o S_zip
    IN IF ~IsDir(f, source_dir) \/ fault
       THEN [fs |-> f, ret |-> <<>>]
       ELSE [fs |-> WriteFile(f, zip_path,
                              [tag |-> "zip",
                               members |-> ZipMembers(f, zip_path, source_dir)]),
             ret |-> zip_path]

\* shutil.move(src, dst) of a file onto a path that is no directory
Move(f, src, dst) ==
    LET from == Resolve(src)
        to == Resolve(dst)
    IN [q \in (DOMAIN f \ {from}) \cup {to} |-> IF q = to THEN f[from] ELSE f[q]]

-----------------------------------------------------------------------------
(* The inputs: repositories, keep paths, dates                             *)

\* the deepest nesting of directories in a repository, and of a keep path
MaxDepth == 3

\* clean_directory calls in specification SpecPrune
MaxCalls == 2

N_src == <<"s","r","c">>
N_app == <<"a","p","p">>
N_lib == <<"l","i","b">>
N_d4 == <<"d","4">>
N_d5 == <<"d","5">>
N_docs == <<"d","o","c","s">>
N_readme == <<"R","E","A","D","M","E">>
N_head == <<"H","E","A","D">>
N_m_py == <<"m",".","p","y">>
N_x_js == <<"x",".","j","s">>
N_r_sh == <<"r",".","s","h">>
N_upper == <<"A",".","P","Y">>
N_n_txt == <<"n",".","t","x","t">>
N_py == <<"p","y">>
N_pkg_py == <<"p","k","g",".","p","y">>
N_sub == <<"s","u","b">>

\* the nested directories of a repository: src, src/app, src/app/lib, ...
ChainNames == <<N_src, N_app, N_lib, N_d4, N_d5>>
Chain(n) == SubSeq(ChainNames, 1, n)

\* every entry name a listing can hold, in one platform's order
AllNames ==
    <<N_readme, N_src, S_git, N_m_py, N_app, N_docs, N_n_txt, S_version_json,
      N_lib, N_head, N_x_js, N_pkg_py, N_r_sh, N_upper, N_py, N_sub, N_d4, N_d5>>

Reverse(q) == [i \in 1..Len(q) |-> q[Len(q) + 1 - i]]

Orders == {AllNames, Reverse(AllNames)}

\* a repository's working tree: `depth` nested directories, each holding
\* m.py and n.txt (and, with `stamped`, a committed version.json); with
\* `extras`, a README file and a docs directory at the root
ChainTree(depth, stamped) ==
    LET lvl == 1..depth
        names == {N_m_py, N_n_txt} \cup (IF stamped THEN {S_version_json} ELSE {})
        dirs == {Chain(n) : n \in lvl}
        files == {Append(Chain(n), x) : n \in lvl, x \in names}
    IN [q \in dirs \cup files |->
           IF q \in dirs THEN Dir ELSE File(Blob(<<"committed", q>>))]

ExtrasTree ==
    (<<N_readme>> :> File(Blob(<<"committed", <<N_readme>>>>)))
    @@ (<<N_docs>> :> Dir)
    @@ (<<N_docs, N_n_txt>> :> File(Blob(<<"committed", <<N_docs, N_n_txt>>>>)))

GitTree == (<<S_git>> :> Dir) @@ (<<S_git, N_head>> :> File(Blob(<<"git", <<N_head>>>>)))

WorkTree(depth, extras, stamped) ==
    Both(ChainTree(depth, stamped), IF extras THEN ExtrasTree ELSE EmptyFs)

\* what a URL can serve: no repository, or one of these trees
Remotes ==
    {[ok |-> FALSE, tree |-> EmptyFs]} \cup
    {[ok |-> TRUE, tree |-> WorkTree(n, e, s)] :
        n \in 0..MaxDepth, e \in BOOLEAN, s \in BOOLEAN}

\* the source_path arguments: a chain directory at each depth, docs, and the
\* README file, each written plain and with a trailing separator
KeepKeys == {Chain(n) : n \in 1..MaxDepth} \cup {<<N_docs>>, <<N_readme>>}
KeepPaths == {JoinSep(k) : k \in KeepKeys} \cup {JoinSep(k) \o <<SEP>> : k \in KeepKeys}

Versions == {<<"1",".","0">>, <<"2",".","1","0">>}

Dates == {[y |-> 2024, m |-> 3, d |-> 7], [y |-> 2026, m |-> 11, d |-> 2],
          [y |-> 1999, m |-> 12, d |-> 31]}

\* what an earlier run can have left in the invocation directory: nothing, or
\* a temp_repo (of a failed clone, or of a run killed after its prune)
StaleTrees ==
    {EmptyFs,
     Under(<<temp_dir>>, GitTree),
     Under(<<temp_dir>>, Both(GitTree, WorkTree(2, FALSE, TRUE)))}

-----------------------------------------------------------------------------
(* main                                                                    *)

Init ==
    /\ fs \in StaleTrees
    /\ pc = "start"
    /\ args \in [source_path : KeepPaths, version : Versions]
    /\ remote \in Remotes
    /\ today \in Dates
    /\ order \in Orders
    /\ log = <<>>
    /\ archive_path = <<>>
    /\ cloned = EmptyFs
    /\ faulted = FALSE
    /\ denied = {}
    /\ calls = 0
    /\ rets = <<>>
    /\ snaps = <<fs>>

\* a start that leaves a temp_repo it finds
Start_KeepStale ==
    /\ pc = "start"
    /\ pc' = "clone"
    /\ UNCHANGED <<fs, args, remote, today, order, log, archive_path, cloned,
                   faulted, denied, calls, rets, snaps>>

\* lines 126-129: a temp_repo left behind is removed
Start ==
    /\ pc = "start"
    /\ fs' = IF Exists(fs, temp_dir) THEN RmTree(fs, temp_dir) ELSE fs
    /\ pc' = "clone"
    /\ UNCHANGED <<args, remote, today, order, log, archive_path, cloned,
                   faulted, denied, calls, rets, snaps>>

\* clone_repository(repo_url, temp_dir): git clones into a path that is absent
\* or an empty directory; a failed git may leave the directory it had made
GitClone(f, rem, partial) ==
    IF rem.ok /\ \A q \in DOMAIN f : ~IsPrefix(<<temp_dir>>, q) \/ q = <<temp_dir>>
    THEN [fs |-> Both(Under(<<temp_dir>>, Both(GitTree, rem.tree)), f), ret |-> TRUE]
    ELSE [fs |-> IF partial THEN Both(f, Under(<<temp_dir>>, GitTree)) ELSE f,
          ret |-> FALSE]

\* lines 131-133
Clone ==
    /\ pc = "clone"
    /\ \E partial \in BOOLEAN :
         LET r == GitClone(fs, remote, partial)
         IN /\ fs' = r.fs
            /\ log' = Append(log, <<"fetch", r.ret>>)
            /\ cloned' = IF r.ret THEN r.fs ELSE cloned
            /\ pc' = IF r.ret THEN "prune" ELSE "done"
    /\ UNCHANGED <<args, remote, today, order, archive_path, faulted, denied,
                   calls, rets, snaps>>

\* a prune step that returns without line 137's rmtree
Prune_NoCleanup ==
    /\ pc = "prune"
    /\ LET r == CleanDirectory(fs, temp_dir, args.source_path, order, denied)
       IN /\ fs' = r.fs
          /\ log' = Append(log, <<"prune", r.ret>>)
          /\ pc' = IF r.ret THEN "stamp" ELSE "done"
    /\ UNCHANGED <<args, remote, today, order, archive_path, cloned, faulted,
                   denied, calls, rets, snaps>>

\* lines 135-138; a fresh clone belongs to the user, so rmtree removes all of it
Prune ==
    /\ pc = "prune"
    /\ LET r == CleanDirectory(fs, temp_dir, args.source_path, order, denied)
       IN /\ fs' = IF r.ret THEN r.fs ELSE RmTree(r.fs, temp_dir)
          /\ log' = Append(log, <<"prune", r.ret>>)
          /\ pc' = IF r.ret THEN "stamp" ELSE "done"
    /\ UNCHANGED <<args, remote, today, order, archive_path, cloned, faulted,
                   denied, calls, rets, snaps>>

\* line 141
source_dir == Join(temp_dir, args.source_path)

\* a stamp step that goes on to the archive whatever create_version_file returns
Stamp_IgnoreFailure ==
    /\ pc = "stamp"
    /\ \E fault \in BOOLEAN :
         LET r == CreateVersionFile(fs, source_dir, args.version, order, fault)
         IN /\ fs' = r.fs
            /\ log' = Append(log, <<"stamp", r.ret>>)
            /\ pc' = "archive"
            /\ faulted' = (faulted \/ fault)
    /\ UNCHANGED <<args, remote, today, order, archive_path, cloned, denied,
                   calls, rets, snaps>>

\* lines 140-144
Stamp ==
    /\ pc = "stamp"
    /\ \E fault \in BOOLEAN :
         LET r == CreateVersionFile(fs, source_dir, args.version, order, fault)
         IN /\ fs' = IF r.ret THEN r.fs ELSE RmTree(r.fs, temp_dir)
            /\ log' = Append(log, <<"stamp", r.ret>>)
            /\ pc' = IF r.ret THEN "archive" ELSE "done"
            /\ faulted' = (faulted \/ fault)
    /\ UNCHANGED <<args, remote, today, order, archive_path, cloned, denied,
                   calls, rets, snaps>>

\* lines 146-150
Archive ==
    /\ pc = "archive"
    /\ \E fault \in BOOLEAN :
         LET r == CreateArchive(fs, source_dir, today, fault)
         IN /\ archive_path' = r.ret
            /\ fs' = IF r.ret # <<>> THEN r.fs ELSE RmTree(r.fs, temp_dir)
            /\ log' = Append(log, <<"package", r.ret # <<>>>>)
            /\ pc' = IF r.ret # <<>> THEN "deliver" ELSE "done"
            /\ faulted' = (faulted \/ fault)
    /\ UNCHANGED <<args, remote, today, order, cloned, denied, calls, rets, snaps>>

\* line 153
final_archive == BaseName(archive_path)

\* lines 152-159: shutil.move is outside every try, so when it raises main
\* ends there, before rmtree and before the closing log line
Deliver ==
    /\ pc = "deliver"
    /\ \E fault \in BOOLEAN :
         /\ fs' = IF fault THEN fs
                  ELSE RmTree(Move(fs, archive_path, final_archive), temp_dir)
         /\ log' = IF fault THEN Append(log, <<"move", FALSE>>)
                   ELSE log \o << <<"move", TRUE>>, <<"success", TRUE>> >>
         /\ faulted' = (faulted \/ fault)
    /\ pc' = "done"
    /\ UNCHANGED <<args, remote, today, order, archive_path, cloned, denied,
                   calls, rets, snaps>>

Next == Start \/ Clone \/ Prune \/ Stamp \/ Archive \/ Deliver

Spec == Init /\ [][Next]_vars

-----------------------------------------------------------------------------
(* clean_directory on its own: any working directory, called repeatedly    *)

RootDirs(f) == {q \in DOMAIN f : Len(q) = 2 /\ q[1] = temp_dir /\ f[q].kind = "dir"}

InitPrune ==
    /\ \E n \in 0..MaxDepth, e \in BOOLEAN, s \in BOOLEAN :
         fs = Under(<<temp_dir>>, Both(GitTree, WorkTree(n, e, s)))
    /\ pc = "lib"
    /\ args \in [source_path : KeepPaths, version : {<<>>}]
    /\ remote = [ok |-> FALSE, tree |-> EmptyFs]
    /\ today \in {[y |-> 2024, m |-> 3, d |-> 7]}
    /\ order \in Orders
    /\ log = <<>>
    /\ archive_path = <<>>
    /\ cloned = EmptyFs
    /\ faulted = FALSE
    /\ denied \in {{}} \cup {{q} : q \in RootDirs(fs)}
    /\ calls = 0
    /\ rets = <<>>
    /\ snaps = <<fs>>

PruneCall ==
    /\ pc = "lib"
    /\ calls < MaxCalls
    /\ LET r == CleanDirectory(fs, temp_dir, args.source_path, order, denied)
       IN /\ fs' = r.fs
          /\ rets' = Append(rets, r.ret)
          /\ snaps' = Append(snaps, r.fs)
    /\ calls' = calls + 1
    /\ UNCHANGED <<pc, args, remote, today, order, log, archive_path, cloned,
                   faulted, denied>>

NextPrune == PruneCall

SpecPrune == InitPrune /\ [][NextPrune]_vars

-----------------------------------------------------------------------------
(* create_version_file on its own: any directory                           *)

\* the entries a stamped directory may hold: files of each ending, a
\* directory whose name ends in .py, and a subdirectory with files of its own
StampEntries ==
    {(<<N_m_py>> :> File(Blob("m"))),
     (<<N_x_js>> :> File(Blob("x"))),
     (<<N_r_sh>> :> File(Blob("r"))),
     (<<N_upper>> :> File(Blob("A"))),
     (<<N_n_txt>> :> File(Blob("n"))),
     (<<N_py>> :> File(Blob("py"))),
     (<<S_version_json>> :> File(Blob("old manifest"))),
     (<<N_pkg_py>> :> Dir),
     (<<N_sub>> :> Dir) @@ (<<N_sub, N_x_js>> :> File(Blob("sx")))
                        @@ (<<N_sub, N_r_sh>> :> File(Blob("sr")))}

RECURSIVE BothAll(_)
BothAll(ts) ==
    IF ts = {} THEN EmptyFs
    ELSE LET t == CHOOSE x \in ts : TRUE IN Both(t, BothAll(ts \ {t}))

InitStamp ==
    /\ \E ts \in SUBSET StampEntries :
         fs = Under(<<temp_dir>>, Under(<<N_app>>, BothAll(ts)))
    /\ pc = "lib"
    /\ args \in [source_path : {N_app, N_app \o <<SEP>>}, version : Versions]
    /\ remote = [ok |-> FALSE, tree |-> EmptyFs]
    /\ today \in {[y |-> 2024, m |-> 3, d |-> 7]}
    /\ order \in Orders
    /\ log = <<>>
    /\ archive_path = <<>>
    /\ cloned = EmptyFs
    /\ faulted = FALSE
    /\ denied = {}
    /\ calls = 0
    /\ rets = <<>>
    /\ snaps = <<fs>>

StampCall ==
    /\ pc = "lib"
    /\ calls = 0
    /\ \E fault \in BOOLEAN :
         LET r == CreateVersionFile(fs, source_dir, args.version, order, fault)
         IN /\ fs' = r.fs
            /\ rets' = Append(rets, r.ret)
            /\ snaps' = Append(snaps, r.fs)
            /\ faulted' = fault
    /\ calls' = calls + 1
    /\ UNCHANGED <<pc, args, remote, today, order, log, archive_path, cloned,
                   denied>>

NextStamp == StampCall

SpecStamp == InitStamp /\ [][NextStamp]_vars

-----------------------------------------------------------------------------
(* The claims                                                              *)

\* the designated subdirectory: the keep path's components below temp_repo
Designated == <<temp_dir>> \o Resolve(args.source_path)

InTempRepo(f) == {q \in DOMAIN f : q[1] = temp_dir}

\* the zip files directly in the invocation directory
CwdArchives(f) ==
    {q \in DOMAIN f : Len(q) = 1 /\ f[q].kind = "file" /\ f[q].data.tag = "zip"}

CloneOk == log # <<>> /\ log[1] = <<"fetch", TRUE>>
Failed == log # <<>> /\ ~log[Len(log)][2]
Ran(stage) == \E i \in 1..Len(log) : log[i][1] = stage

KeepIsDir == Designated \in DOMAIN cloned /\ cloned[Designated].kind = "dir"
KeepMissing == Designated \notin DOMAIN cloned

\* a zip's members are the designated subdirectory as cloned, with a
\* version.json that carries the version
HoldsStampedCopy(members) ==
    LET src == SubTree(cloned, Designated)
        vj == <<S_version_json>>
    IN /\ DOMAIN members = DOMAIN src \cup {vj}
       /\ \A r \in DOMAIN src \ {vj} : members[r] = src[r]
       /\ members[vj].kind = "file"
       /\ members[vj].data.tag = "manifest"
       /\ members[vj].data.version = args.version

\* C1: every run whose clone succeeds and whose subdirectory path exists in
\* the cloned tree (the environment refusing no operation) ends with an archive
\* in the invocation directory that holds exactly the subdirectory's contents
\* plus a version.json with the supplied version.
C1_ArchiveOfExistingSubdir ==
    (pc = "done" /\ CloneOk /\ KeepIsDir /\ ~faulted)
        => \E q \in CwdArchives(fs) : HoldsStampedCopy(fs[q].data.members)

\* C2: when the keep path does not exist in the clone, the run ends with no
\* version.json written, no archive in the invocation directory and temp_repo
\* removed.
C2_MissingKeepLeavesNothing ==
    (pc = "done" /\ CloneOk /\ KeepMissing)
        => /\ ~Ran("stamp")
           /\ \A q \in DOMAIN fs : q[Len(q)] # S_version_json
           /\ CwdArchives(fs) = {}
           /\ InTempRepo(fs) = {}

C2_Witness ==
    /\ pc = "done" /\ CloneOk /\ KeepMissing
    /\ log = << <<"fetch", TRUE>>, <<"prune", FALSE>> >>
    /\ InTempRepo(cloned) # {}

\* C3: a run that fails at any step after a successful clone ends with
\* temp_repo deleted and no archive in the invocation directory.
C3_FailureAfterCloneCleansUp ==
    (pc = "done" /\ CloneOk /\ Failed)
        => InTempRepo(fs) = {} /\ CwdArchives(fs) = {}

-----------------------------------------------------------------------------

\* C4: after a clean_directory call that returns success, the designated
\* subdirectory exists with its contents unchanged, with every ancestor
\* directory on the path to it, and .git survives.
C4_KeepPathSurvives ==
    \A i \in 1..Len(rets) :
        rets[i] =>
            /\ \A n \in 1..Len(Designated) :
                   SubSeq(Designated, 1, n) \in DOMAIN snaps[i + 1]
            /\ SubTree(snaps[i + 1], Designated) = SubTree(snaps[i], Designated)
            /\ <<temp_dir, S_git>> \in DOMAIN snaps[i + 1]

-----------------------------------------------------------------------------

\* a name that is some stem followed by .py, .js or .sh
HasSourceEnding(n) ==
    \E k \in 0..Len(n) :
        \E e \in {<<".","p","y">>, <<".","j","s">>, <<".","s","h">>} :
            n = SubSeq(n, 1, k) \o e

Range(q) == {q[j] : j \in DOMAIN q}

\* C5: the files list create_version_file writes holds exactly the regular
\* files directly inside the stamped directory whose names end in .py, .js or
\* .sh (case-sensitively), each once: not version.json, no subdirectory, no
\* entry of a nested subdirectory.
C5_ManifestListsSourceFiles ==
    \A i \in 1..Len(rets) :
        rets[i] =>
            LET before == snaps[i]
                man == snaps[i + 1][Append(Designated, S_version_json)].data
                here == {q \in DOMAIN before :
                            Len(q) = Len(Designated) + 1 /\ IsPrefix(Designated, q)}
            IN /\ man.tag = "manifest"
               /\ Range(man.files) =
                      {q[Len(q)] : q \in {q \in here :
                           before[q].kind = "file" /\ HasSourceEnding(q[Len(q)])}}
               /\ Len(man.files) = Cardinality(Range(man.files))
               /\ S_version_json \notin Range(man.files)

C5_Witness ==
    /\ calls = 1 /\ rets = <<TRUE>>
    /\ {N_m_py, N_r_sh, N_upper, N_n_txt, N_py, S_version_json, N_pkg_py, N_sub}
           \subseteq {q[Len(q)] : q \in DOMAIN snaps[1]}
    /\ Append(Designated, N_x_js) \notin DOMAIN snaps[1]
    /\ Designated \o <<N_sub, N_x_js>> \in DOMAIN snaps[1]
    /\ Range(fs[Append(Designated, S_version_json)].data.files) = {N_m_py, N_r_sh}

-----------------------------------------------------------------------------

DigitValue ==
    ("0" :> 0) @@ ("1" :> 1) @@ ("2" :> 2) @@ ("3" :> 3) @@ ("4" :> 4) @@
    ("5" :> 5) @@ ("6" :> 6) @@ ("7" :> 7) @@ ("8" :> 8) @@ ("9" :> 9)

RECURSIVE Number(_)
Number(ds) ==
    IF ds = <<>> THEN 0
    ELSE 10 * Number(SubSeq(ds, 1, Len(ds) - 1)) + DigitValue[ds[Len(ds)]]

\* <last component of the subdirectory path><YYYYMMDD>.zip for the local date
NamedForToday(name) ==
    LET key == Resolve(args.source_path)
        last == key[Len(key)]
        n == Len(last)
    IN /\ Len(name) = n + 12
       /\ SubSeq(name, 1, n) = last
       /\ \A j \in (n + 1)..(n + 8) : name[j] \in DOMAIN DigitValue
       /\ Number(SubSeq(name, n + 1, n + 4)) = today.y
       /\ Number(SubSeq(name, n + 5, n + 6)) = today.m
       /\ Number(SubSeq(name, n + 7, n + 8)) = today.d
       /\ SubSeq(name, n + 9, n + 12) = <<".","z","i","p">>

\* C6: the archive is named <last path component of the subdirectory>
\* <YYYYMMDD>.zip, the local date in 8 zero-padded digits, with or without a
\* trailing separator on the path, and keeps the name when moved to the
\* invocation directory.
C6_ArchiveNamedDirDate ==
    /\ pc = "deliver" =>
           LET made == Resolve(archive_path)
           IN /\ made \in DOMAIN fs
              /\ NamedForToday(made[Len(made)])
    /\ pc = "done" =>
           \A q \in CwdArchives(fs) :
               LET made == Resolve(archive_path)
               IN NamedForToday(q[1]) /\ q[1] = made[Len(made)]

C6_Witness ==
    /\ pc = "done"
    /\ args.source_path = <<"s","r","c","/","a","p","p","/">>
    /\ today = [y |-> 2024, m |-> 3, d |-> 7]
    /\ CwdArchives(fs) =
           {<< <<"a","p","p","2","0","2","4","0","3","0","7",".","z","i","p">> >>}

-----------------------------------------------------------------------------

RootListing(f) == {q[2] : q \in {q \in DOMAIN f : Len(q) = 2 /\ q[1] = temp_dir}}

\* C7: a second clean_directory call with the same keep path leaves the same
\* set of root-level entries as the first.
C7_PruneIdempotentOnRoot ==
    \A i \in 2..Len(rets) : RootListing(snaps[i + 1]) = RootListing(snaps[2])

C7_Witness ==
    /\ Len(rets) >= 2
    /\ rets[1]
    /\ RootListing(snaps[2]) # RootListing(snaps[1])

-----------------------------------------------------------------------------

\* C8: whatever an earlier run left behind, the clone is invoked on a path
\* that does not exist, and its outcome depends on the repository alone.
C8_CloneOnFreshPath ==
    /\ pc = "clone" => InTempRepo(fs) = {}
    /\ log # <<>> => log[1] = <<"fetch", remote.ok>>

C8_Witness ==
    /\ pc = "prune"
    /\ \E q \in InTempRepo(snaps[1]) : Len(q) > 1
    /\ CloneOk

-----------------------------------------------------------------------------

StageOrder == <<"fetch", "prune", "stamp", "package", "move", "success">>

\* C9: the stages run in the order fetch, prune, stamp, package (then the move
\* and the success line), each at most once, and only after every earlier one
\* succeeded.
C9_StagesInOrder ==
    /\ Len(log) <= Len(StageOrder)
    /\ \A i \in 1..Len(log) : log[i][1] = StageOrder[i]
    /\ \A i \in 1..(Len(log) - 1) : log[i][2]
    /\ Failed => pc = "done"

C9_Witness ==
    /\ pc = "done"
    /\ log = [i \in 1..Len(StageOrder) |-> <<StageOrder[i], TRUE>>]

-----------------------------------------------------------------------------

\* C10: a clean_directory call deletes nothing but whole directories that are
\* direct children of the root: what remains is unchanged, whatever is gone
\* lay in a root-level directory that is gone itself, and a call whose keep
\* path does not exist fails and deletes nothing.
C10_OnlyRootDirectoriesDeleted ==
    \A i \in 1..Len(rets) :
        LET before == snaps[i]
            after == snaps[i + 1]
        IN /\ DOMAIN after \subseteq DOMAIN before
           /\ \A q \in DOMAIN after : after[q] = before[q]
           /\ \A q \in DOMAIN before \ DOMAIN after :
                  LET top == SubSeq(q, 1, 2)
                  IN /\ Len(q) >= 2
                     /\ before[top].kind = "dir"
                     /\ top \notin DOMAIN after
           /\ Designated \notin DOMAIN before => (~rets[i] /\ after = before)

C10_Witness ==
    /\ Len(rets) >= 1
    /\ rets[1]
    /\ <<temp_dir, N_docs>> \in DOMAIN snaps[1] \ DOMAIN snaps[2]
    /\ <<temp_dir, N_readme>> \in DOMAIN snaps[2]
    /\ Designated \o <<N_m_py>> \in DOMAIN snaps[2]

=============================================================================
